---- MODULE Spec2Model ----
(***************************************************************************)
(* The download engine of src-tauri/src/download/manager.rs as a state      *)
(* machine: the task store, the handle table, the permit pool, the          *)
(* persisted document, the destination files and the spawned workers.       *)
(*                                                                          *)
(* Every manager call (create_task, start_task, pause_task, cancel_task,    *)
(* load_persisted) is one action, its trailing persist included.  A spawned *)
(* worker is a process of its own: each of its actions is the code between  *)
(* two of its await points.                                                 *)
(*                                                                          *)
(* Conventions.  Option<T> is a sequence: None is <<>> and Some(x) is       *)
(* <<x>>.  A HashMap is a function whose DOMAIN is its key set.  A file is  *)
(* a sequence of bytes; the byte the server sends is 1 and the byte of a    *)
(* hole left by seeking past the end of a file is 0.  f64 percentages are   *)
(* kept as their integer part.  Every task has a destination path of its    *)
(* own, named by the task id.                                               *)
(***************************************************************************)
EXTENDS Integers, Sequences, FiniteSets, TLC

\* ------------------------------------------------------------------ bounds
\* Size of the permit pool (the max_concurrent argument of new).
MaxConcurrent == 1
\* Number of tasks ever created (ids are fresh and never reused): in the
\* specification of one task's whole life, and in that of the permit pool.
MaxTasks == 1
PoolTasks == 2
\* Number of workers ever spawned by start_task: in general, and in the
\* specification of one task started again and again.
MaxWorkers == 2
ResumeWorkers == 3
\* Largest total size of a file, in bytes.
MaxSize == 2
\* Largest number of bytes in one received buffer.
MaxBuf == 1

\* The ids a caller passes: those of the tasks and 0, which no task has.
TaskIds == 0..MaxTasks
PoolIds == 1..PoolTasks
WorkerIds == 1..MaxWorkers
\* The total sizes create_task is given: 0 (unknown) and the sizes that a
\* partial file can be resumed at.
Sizes == {0} \cup 2..MaxSize
\* The server may send more bytes than were asked for.
MaxFileLen == MaxSize + 1

None == <<>>
Some(x) == <<x>>

\* ------------------------------------------------------------------ helpers
RECURSIVE Repeat(_, _)
Repeat(b, n) == IF n = 0 THEN <<>> ELSE <<b>> \o Repeat(b, n - 1)

\* u64::saturating_sub
SaturatingSub(a, b) == IF a > b THEN a - b ELSE 0

Min(a, b) == IF a < b THEN a ELSE b

\* (downloaded as f64 / total as f64 * 100.0).min(100.0), integer part
Percent(downloaded, total) == Min((downloaded * 100) \div total, 100)

\* The lowercase hex rendering of a digest of `data`.  The digest is modelled
\* as injective: two files have the same digest iff they have the same bytes.
Sha256Hex(data) == [alg |-> "sha256", of |-> data, upper |-> FALSE]
Md5Hex(data) == [alg |-> "md5", of |-> data, upper |-> FALSE]

\* str::eq_ignore_ascii_case on two hex strings
EqIgnoreAsciiCase(a, b) == a.alg = b.alg /\ a.of = b.of

\* The file the server holds for a task of total size n (n = 0: size unknown).
GoodFile(n) == Repeat(1, IF n = 0 THEN MaxSize ELSE n)

\* The (sha256, md5) pairs create_task is given for a file of size n: no
\* checksum, the right sha256 in upper case, or the right md5.
ChecksumChoices(n) ==
    { <<None, None>>,
      <<Some([Sha256Hex(GoodFile(n)) EXCEPT !.upper = TRUE]), None>>,
      <<None, Some(Md5Hex(GoodFile(n)))>> }

\* A file no server sends: the digests of it are the wrong checksums.
BadFile == <<2>>

\* Every (sha256, md5) pair for a file of size n: each of the two is absent,
\* right or wrong.
ChecksumPairs(n) ==
    { <<sha256, md5>> :
        sha256 \in {None, Some([Sha256Hex(GoodFile(n)) EXCEPT !.upper = TRUE]),
                    Some(Sha256Hex(BadFile))},
        md5 \in {None, Some(Md5Hex(GoodFile(n))), Some(Md5Hex(BadFile))} }

Terminal(status) == status \in {"Completed", "Error"}

\* ------------------------------------------------------------------ state
VARIABLES
    tasks,      \* DownloadManager.tasks: task id -> DownloadTask
    handles,    \* DownloadManager.handles: task id -> worker (JoinHandle)
    permits,    \* permits left in DownloadManager.semaphore
    doc,        \* the document at persist_path: task id -> DownloadTask
    files,      \* the file system: destination path -> bytes
    workers,    \* the spawned workers: worker id -> its local state
    nextId,     \* the next fresh task id (Uuid::new_v4)
    nextWorker, \* the id of the next worker tokio::spawn creates
    verified,   \* history: the paths whose file a checksum verification has
                \* found equal to the expected digest since its last write
    ret,        \* what the last manager call returned: "Ok" or the message of
                \* its Err ("" before any call has returned)
    starting    \* the calls of start_task that have spawned their worker and
                \* not yet inserted its handle: worker -> task id

vars ==
    <<tasks, handles, permits, doc, files, workers, nextId, nextWorker, verified, ret,
      starting>>

\* A map without one key (HashMap::remove).
Remove(m, k) == [x \in DOMAIN m \ {k} |-> m[x]]
\* A map with one key set (HashMap::insert).
Insert(m, k, v) == [x \in DOMAIN m \cup {k} |-> IF x = k THEN v ELSE m[x]]

EmptyMap == [x \in {} |-> 0]

\* The destination path of a task.
DestPath(id) == id

\* ------------------------------------------------------------------ persist
\* A filter that drops the Completed tasks only.
ToSave_KeepsError(ts) == [id \in {x \in DOMAIN ts : ts[x].status # "Completed"} |-> ts[id]]

\* The filter of persist and of the worker's final snapshot: every task but
\* the Completed and Error ones.
ToSave(ts) == [id \in {x \in DOMAIN ts : ~Terminal(ts[x].status)} |-> ts[id]]

\* DownloadManager::persist: the document is overwritten with the filter of
\* the store (persist_path is always Some in this application).
persist(ts) == ToSave(ts)

\* ------------------------------------------------------------------ new
Init ==
    /\ tasks = EmptyMap
    /\ handles = EmptyMap
    /\ permits = MaxConcurrent
    /\ doc = EmptyMap
    /\ files = EmptyMap
    /\ workers = EmptyMap
    /\ nextId = 1
    /\ nextWorker = 1
    /\ verified = {}
    /\ ret = ""
    /\ starting = EmptyMap

\* ------------------------------------------------------------------ create_task
\* A task whose chunk ends at total_size - 1 without saturation.
NewTask_PlainSub(id, total_size, sha256, md5) ==
    [ id |-> id,
      dest_path |-> DestPath(id),
      total_size |-> total_size,
      downloaded_size |-> 0,
      progress |-> 0,
      speed |-> 0,
      status |-> "Pending",
      error |-> None,
      chunks |-> << [ id |-> 0,
                      start |-> 0,
                      end |-> total_size - 1,
                      downloaded |-> 0,
                      completed |-> FALSE ] >>,
      sha256 |-> sha256,
      md5 |-> md5 ]

\* The task create_task builds for total size `total_size`.
NewTask(id, total_size, sha256, md5) ==
    [ id |-> id,
      dest_path |-> DestPath(id),
      total_size |-> total_size,
      downloaded_size |-> 0,
      progress |-> 0,
      speed |-> 0,
      status |-> "Pending",
      error |-> None,
      chunks |-> << [ id |-> 0,
                      start |-> 0,
                      end |-> SaturatingSub(total_size, 1),
                      downloaded |-> 0,
                      completed |-> FALSE ] >>,
      sha256 |-> sha256,
      md5 |-> md5 ]

\* A create that takes a failed probe for a size of 0.
create_task_InsertsOnFailure(known_size, probe, sha256, md5) ==
    LET total_size == IF known_size # None THEN known_size[1]
                      ELSE IF probe # None THEN probe[1] ELSE 0
    IN /\ tasks' = Insert(tasks, nextId, NewTask(nextId, total_size, sha256, md5))
       /\ doc' = persist(tasks')
       /\ nextId' = nextId + 1
       /\ ret' = "Ok"
       /\ UNCHANGED <<handles, permits, files, workers, nextWorker, verified, starting>>

\* known_size is Some(n) or None; `probe` is the outcome of the HEAD request
\* made when it is None: None when the request failed, else Some(content
\* length), 0 when the header is missing or unparsable.  The call returns
\* Ok(task id), the id being the one just inserted, or the request's error.
create_task(known_size, probe, sha256, md5) ==
    /\ IF known_size = None /\ probe = None
       THEN /\ ret' = "HEAD request failed"
            /\ UNCHANGED <<tasks, handles, permits, doc, files, workers, nextId, nextWorker, verified, starting>>
       ELSE LET total_size == IF known_size # None THEN known_size[1] ELSE probe[1]
                task == NewTask(nextId, total_size, sha256, md5)
            IN /\ tasks' = Insert(tasks, nextId, task)
               /\ doc' = persist(tasks')
               /\ nextId' = nextId + 1
               /\ ret' = "Ok"
               /\ UNCHANGED <<handles, permits, files, workers, nextWorker, verified, starting>>

\* ------------------------------------------------------------------ start_task
\* A reconciliation without the branch of the file that is already complete.
Reconcile_NoShortcut(t, fs) ==
    LET t1 == [t EXCEPT !.status = "Downloading"]
        has_meta == t.dest_path \in DOMAIN fs
        on_disk == IF has_meta THEN Len(fs[t.dest_path]) ELSE 0
    IN IF has_meta /\ on_disk > 0 /\ on_disk < t1.total_size
       THEN [t1 EXCEPT !.chunks[1].downloaded = on_disk,
                       !.chunks[1].completed = FALSE,
                       !.downloaded_size = on_disk,
                       !.progress = Percent(on_disk, t1.total_size)]
       ELSE t1

\* A reconciliation that sets downloaded_size and forgets the chunk.
Reconcile_KeepsChunk(t, fs) ==
    LET t1 == [t EXCEPT !.status = "Downloading"]
        has_meta == t.dest_path \in DOMAIN fs
        on_disk == IF has_meta THEN Len(fs[t.dest_path]) ELSE 0
    IN IF has_meta /\ on_disk > 0 /\ on_disk < t1.total_size
       THEN [t1 EXCEPT !.downloaded_size = on_disk,
                       !.progress = Percent(on_disk, t1.total_size)]
       ELSE IF has_meta /\ t1.total_size > 0 /\ on_disk >= t1.total_size
       THEN [t1 EXCEPT !.status = "Completed", !.progress = 100]
       ELSE t1

\* A reconciliation whose already-complete branch does not ask for a known
\* total size.
Reconcile_UnguardedShortcut(t, fs) ==
    LET t1 == [t EXCEPT !.status = "Downloading"]
        has_meta == t.dest_path \in DOMAIN fs
        on_disk == IF has_meta THEN Len(fs[t.dest_path]) ELSE 0
    IN IF has_meta /\ on_disk > 0 /\ on_disk < t1.total_size
       THEN [t1 EXCEPT !.chunks[1].downloaded = on_disk,
                       !.chunks[1].completed = FALSE,
                       !.downloaded_size = on_disk,
                       !.progress = Percent(on_disk, t1.total_size)]
       ELSE IF has_meta /\ on_disk >= t1.total_size
       THEN [t1 EXCEPT !.status = "Completed", !.progress = 100]
       ELSE t1

\* The first block of start_task, under the store's write lock: the status is
\* set to Downloading and the record is reconciled with the length of the
\* destination file (fs is the file system).
Reconcile(t, fs) ==
    LET t1 == [t EXCEPT !.status = "Downloading"]
        has_meta == t.dest_path \in DOMAIN fs
        on_disk == IF has_meta THEN Len(fs[t.dest_path]) ELSE 0
    IN IF has_meta /\ on_disk > 0 /\ on_disk < t1.total_size
       THEN [t1 EXCEPT !.chunks[1].downloaded = on_disk,
                       !.chunks[1].completed = FALSE,
                       !.downloaded_size = on_disk,
                       !.progress = Percent(on_disk, t1.total_size)]
       ELSE IF has_meta /\ t1.total_size > 0 /\ on_disk >= t1.total_size
       THEN [t1 EXCEPT !.status = "Completed", !.progress = 100]
       ELSE t1

\* The bytes [0, k) of the destination file when start_task takes the resume
\* branch with k bytes on disk, <<>> otherwise (kept for the worker's life).
ResumePrefix(t, fs) ==
    IF /\ t.dest_path \in DOMAIN fs
       /\ Len(fs[t.dest_path]) > 0
       /\ Len(fs[t.dest_path]) < t.total_size
    THEN fs[t.dest_path]
    ELSE <<>>

\* The fields of the captured clone that the worker reads.
Captured(task) ==
    [ id |-> task.id,
      dest_path |-> task.dest_path,
      total_size |-> task.total_size,
      downloaded_size |-> task.downloaded_size,
      chunks |-> task.chunks,
      sha256 |-> task.sha256,
      md5 |-> task.md5 ]

\* A worker that runs the transfer at once, without acquiring a permit.
NewWorker_NoAcquire(task_id, task, prefix) ==
    [ tid |-> task_id,
      task |-> Captured(task),
      pc |-> "run",
      permit |-> TRUE,
      chunk_downloaded |-> 0,
      counter |-> 0,
      result |-> None,
      request |-> None,
      pos |-> 0,
      event |-> None,
      resumed |-> prefix ]

\* The state of a worker as tokio::spawn creates it: `task` is the clone of
\* the record that the async block captures, `pos` is the cursor of the
\* destination file once it is open, and `event` is the last DownloadProgress
\* the worker has handed to on_progress.
NewWorker(task_id, task, prefix) ==
    [ tid |-> task_id,
      task |-> Captured(task),
      pc |-> "acquire",
      permit |-> FALSE,
      chunk_downloaded |-> 0,
      counter |-> 0,
      result |-> None,
      request |-> None,
      pos |-> 0,
      event |-> None,
      resumed |-> prefix ]

\* A start that takes the permit itself before it spawns the worker.
start_task_WaitsForPermit(task_id, dir_ok) ==
    IF task_id \notin DOMAIN tasks
    THEN /\ ret' = "Task not found"
         /\ UNCHANGED <<tasks, handles, permits, doc, files, workers, nextId, nextWorker, verified, starting>>
    ELSE LET task == Reconcile(tasks[task_id], files)
         IN /\ tasks' = [tasks EXCEPT ![task_id] = task]
            /\ IF task.status = "Completed"
               THEN /\ doc' = persist(tasks')
                    /\ ret' = "Ok"
                    /\ UNCHANGED <<handles, permits, files, workers, nextId, nextWorker, verified, starting>>
               ELSE IF ~dir_ok
               THEN /\ ret' = "create_dir_all failed"
                    /\ UNCHANGED <<handles, permits, doc, files, workers, nextId, nextWorker, verified, starting>>
               ELSE /\ permits > 0
                    /\ permits' = permits - 1
                    /\ workers' = Insert(workers, nextWorker,
                                [NewWorker(task_id, task,
                                           ResumePrefix(tasks[task_id], files))
                                   EXCEPT !.pc = "run", !.permit = TRUE])
                    /\ handles' = Insert(handles, task_id, nextWorker)
                    /\ nextWorker' = nextWorker + 1
                    /\ ret' = "Ok"
                    /\ UNCHANGED <<doc, files, nextId, verified, starting>>

\* A start that answers Ok for an id the store does not hold.
start_task_OkOnMissing(task_id, dir_ok) ==
    IF task_id \notin DOMAIN tasks
    THEN /\ ret' = "Ok"
         /\ UNCHANGED <<tasks, handles, permits, doc, files, workers, nextId, nextWorker, verified, starting>>
    ELSE LET task == Reconcile(tasks[task_id], files)
         IN /\ tasks' = [tasks EXCEPT ![task_id] = task]
            /\ ret' = IF task.status # "Completed" /\ ~dir_ok
                      THEN "create_dir_all failed" ELSE "Ok"
            /\ IF task.status = "Completed"
               THEN /\ doc' = persist(tasks')
                    /\ UNCHANGED <<handles, permits, files, workers, nextId, nextWorker, verified, starting>>
               ELSE IF ~dir_ok
               THEN UNCHANGED <<handles, permits, doc, files, workers, nextId, nextWorker, verified, starting>>
               ELSE /\ workers' = Insert(workers, nextWorker,
                                NewWorker(task_id, task,
                                          ResumePrefix(tasks[task_id], files)))
                    /\ handles' = Insert(handles, task_id, nextWorker)
                    /\ nextWorker' = nextWorker + 1
                    /\ UNCHANGED <<permits, doc, files, nextId, verified, starting>>

\* dir_ok: whether fs::create_dir_all on the destination's parent succeeds.
start_task(task_id, dir_ok) ==
    IF task_id \notin DOMAIN tasks
    THEN /\ ret' = "Task not found"
         /\ UNCHANGED <<tasks, handles, permits, doc, files, workers, nextId, nextWorker, verified, starting>>
    ELSE LET task == Reconcile(tasks[task_id], files)
         IN /\ tasks' = [tasks EXCEPT ![task_id] = task]
            /\ IF task.status = "Completed"
               THEN /\ doc' = persist(tasks')
                    /\ ret' = "Ok"
                    /\ UNCHANGED <<handles, permits, files, workers, nextId, nextWorker, verified, starting>>
               ELSE IF ~dir_ok
               THEN /\ ret' = "create_dir_all failed"
                    /\ UNCHANGED <<handles, permits, doc, files, workers, nextId, nextWorker, verified, starting>>
               ELSE /\ workers' = Insert(workers, nextWorker,
                                NewWorker(task_id, task,
                                          ResumePrefix(tasks[task_id], files)))
                    /\ handles' = Insert(handles, task_id, nextWorker)
                    /\ nextWorker' = nextWorker + 1
                    /\ ret' = "Ok"
                    /\ UNCHANGED <<permits, doc, files, nextId, verified, starting>>

\* start_task in two steps, for the calls that interleave with it.  The
\* first step is start_task up to tokio::spawn, for a task of the store
\* whose file is not complete and whose directory can be created: the
\* worker exists, its handle is not in the table yet.
start_task_spawn(task_id) ==
    /\ task_id \in DOMAIN tasks
    /\ LET task == Reconcile(tasks[task_id], files)
       IN /\ task.status # "Completed"
          /\ tasks' = [tasks EXCEPT ![task_id] = task]
          /\ workers' = Insert(workers, nextWorker,
                               NewWorker(task_id, task, ResumePrefix(tasks[task_id], files)))
          /\ starting' = Insert(starting, nextWorker, task_id)
          /\ nextWorker' = nextWorker + 1
    /\ UNCHANGED <<handles, permits, doc, files, nextId, verified, ret>>

\* The second step: the handle table's lock is taken, the handle of the
\* spawned worker replaces the one the table held, and the call returns Ok.
start_task_register(w) ==
    /\ w \in DOMAIN starting
    /\ handles' = Insert(handles, starting[w], w)
    /\ starting' = Remove(starting, w)
    /\ ret' = "Ok"
    /\ UNCHANGED <<tasks, permits, doc, files, workers, nextId, nextWorker, verified>>

\* start_task while fewer than `max` workers have been spawned so far.
StartBounded(task_id, dir_ok, max) ==
    /\ start_task(task_id, dir_ok)
    /\ nextWorker' # nextWorker => nextWorker <= max

\* ------------------------------------------------------------------ the worker
\* An anyhow error, by its message.
Err(msg) == [msg |-> msg]

Live(w) == w \in DOMAIN workers /\ workers[w].pc # "aborted"

\* acquire without waiting for a free permit.
acquire_Unguarded(w) ==
    /\ Live(w)
    /\ workers[w].pc = "acquire"
    /\ permits' = permits - 1
    /\ workers' = [workers EXCEPT ![w].permit = TRUE, ![w].pc = "run"]
    /\ UNCHANGED <<tasks, handles, doc, files, nextId, nextWorker, verified, ret, starting>>

\* semaphore.acquire().await
acquire(w) ==
    /\ Live(w)
    /\ workers[w].pc = "acquire"
    /\ permits > 0
    /\ permits' = permits - 1
    /\ workers' = [workers EXCEPT ![w].permit = TRUE, ![w].pc = "run"]
    /\ UNCHANGED <<tasks, handles, doc, files, nextId, nextWorker, verified, ret, starting>>

\* run_download: the chunks of the captured record that are not completed.
Pending(task) == SelectSeq(task.chunks, LAMBDA c : ~c.completed)

\* download_chunk: the byte offset the transfer of the first chunk of the
\* captured record begins at (range_start, also the seek position).
StartOffset(task) == task.chunks[1].start + task.chunks[1].downloaded

\* File::write_all at offset pos: a seek past the end leaves a hole of zeros.
WriteAt(file, pos, data) ==
    LET base == IF Len(file) < pos
                THEN file \o Repeat(0, pos - Len(file))
                ELSE file
    IN [i \in 1..(IF Len(base) > pos + Len(data) THEN Len(base) ELSE pos + Len(data)) |->
          IF i > pos /\ i <= pos + Len(data) THEN data[i - pos] ELSE base[i]]

\* OpenOptions::new().write(true).create(true).truncate(true).open(dest_path)
OpenFile(fs, path) == Insert(fs, path, <<>>)

\* A request that carries a Range header whatever its offset.
RangeHeader_Always(range_start, range_end) ==
    Some([unit |-> "bytes", first |-> range_start, last |-> range_end])

\* The Range header of the GET: format!("bytes={}-{}", range_start,
\* range_end) when range_start > 0, none otherwise.
RangeHeader(range_start, range_end) ==
    IF range_start > 0
    THEN Some([unit |-> "bytes", first |-> range_start, last |-> range_end])
    ELSE None

\* The start of run_download and of download_chunk, up to the open and seek
\* of the destination file.  outcome: what the GET, the open and the seek do.
\* `request` records the GET that was sent, by its Range header.
begin_chunk(w, outcome) ==
    /\ Live(w)
    /\ workers[w].pc = "run"
    /\ LET me == workers[w]
           pending == Pending(me.task)
       IN IF pending = <<>>
          THEN /\ outcome = "ok"
               /\ workers' = [workers EXCEPT ![w].pc = "joined"]
               /\ UNCHANGED <<files, verified>>
          ELSE LET chunk == pending[1]
                   already_downloaded == chunk.downloaded
                   range_start == chunk.start + already_downloaded
                   range_end == chunk.end
               IN IF range_start > range_end
                  THEN /\ outcome = "ok"
                       /\ workers' = [workers EXCEPT ![w].pc = "joined"]
                       /\ UNCHANGED <<files, verified>>
                  ELSE CASE outcome = "ok" ->
                              /\ files' = OpenFile(files, me.task.dest_path)
                              /\ verified' = verified \ {me.task.dest_path}
                              /\ workers' = [workers EXCEPT
                                    ![w].pc = "stream",
                                    ![w].request =
                                        Some([range |-> RangeHeader(range_start, range_end)]),
                                    ![w].pos = chunk.start + already_downloaded,
                                    ![w].chunk_downloaded = already_downloaded,
                                    ![w].counter = me.task.downloaded_size]
                         [] outcome \in {"chunk 0 GET failed", "chunk 0 non-2xx status",
                                         "open file failed"} ->
                              /\ workers' = [workers EXCEPT
                                    ![w].pc = "finish",
                                    ![w].request =
                                        Some([range |-> RangeHeader(range_start, range_end)]),
                                    ![w].result = Some(Err(outcome))]
                              /\ UNCHANGED <<files, verified>>
                         [] outcome = "seek failed" ->
                              /\ files' = OpenFile(files, me.task.dest_path)
                              /\ verified' = verified \ {me.task.dest_path}
                              /\ workers' = [workers EXCEPT
                                    ![w].pc = "finish",
                                    ![w].request =
                                        Some([range |-> RangeHeader(range_start, range_end)]),
                                    ![w].result = Some(Err(outcome))]
    /\ UNCHANGED <<tasks, handles, permits, doc, nextId, nextWorker, ret, starting>>

BeginOutcomes ==
    {"ok", "chunk 0 GET failed", "chunk 0 non-2xx status", "open file failed", "seek failed"}

\* The end of download_chunk, under the store's write lock: the chunk is
\* marked completed and downloaded_size is the sum over the chunks.
RECURSIVE SumDownloaded(_)
SumDownloaded(chunks) ==
    IF chunks = <<>> THEN 0 ELSE Head(chunks).downloaded + SumDownloaded(Tail(chunks))

\* A completion that marks the chunk and leaves downloaded_size alone.
MarkCompleted_KeepsSize(t, chunk_id, chunk_downloaded) ==
    [t EXCEPT !.chunks = [i \in DOMAIN t.chunks |->
                            IF t.chunks[i].id = chunk_id
                            THEN [t.chunks[i] EXCEPT !.downloaded = chunk_downloaded,
                                                     !.completed = TRUE]
                            ELSE t.chunks[i]]]

MarkCompleted(t, chunk_id, chunk_downloaded) ==
    LET cs == [i \in DOMAIN t.chunks |->
                 IF t.chunks[i].id = chunk_id
                 THEN [t.chunks[i] EXCEPT !.downloaded = chunk_downloaded,
                                          !.completed = TRUE]
                 ELSE t.chunks[i]]
    IN [t EXCEPT !.chunks = cs, !.downloaded_size = SumDownloaded(cs)]

\* A progress value that is not capped at 100.
ProgressEvent_Uncapped(task_id, total_downloaded, total_size) ==
    [ task_id |-> task_id,
      downloaded_size |-> total_downloaded,
      total_size |-> total_size,
      progress |-> IF total_size > 0 THEN (total_downloaded * 100) \div total_size ELSE 0,
      status |-> "Downloading",
      error |-> None ]

\* The DownloadProgress built after a buffer is written (its speed, which
\* depends on the clock, is left out).
ProgressEvent(task_id, total_downloaded, total_size) ==
    [ task_id |-> task_id,
      downloaded_size |-> total_downloaded,
      total_size |-> total_size,
      progress |-> IF total_size > 0 THEN Percent(total_downloaded, total_size) ELSE 0,
      status |-> "Downloading",
      error |-> None ]

\* One turn of the loop over stream.next(): a buffer of n bytes is received
\* and written at the cursor of the file, the counters are advanced and the
\* progress is handed to on_progress.
stream_buffer(w, n) ==
    /\ Live(w)
    /\ workers[w].pc = "stream"
    /\ LET me == workers[w]
           path == me.task.dest_path
           total_downloaded == me.counter + n
       IN /\ me.pos + n <= MaxFileLen
          /\ files' = [files EXCEPT ![path] = WriteAt(files[path], me.pos, Repeat(1, n))]
          /\ verified' = verified \ {path}
          /\ workers' = [workers EXCEPT
                ![w].pos = me.pos + n,
                ![w].chunk_downloaded = me.chunk_downloaded + n,
                ![w].counter = total_downloaded,
                ![w].event = Some(ProgressEvent(me.task.id, total_downloaded,
                                                me.task.total_size))]
    /\ UNCHANGED <<tasks, handles, permits, doc, nextId, nextWorker, ret, starting>>

\* The loop fails: stream.next() yields an error or write_all fails.
stream_error(w, err) ==
    /\ Live(w)
    /\ workers[w].pc = "stream"
    /\ workers' = [workers EXCEPT ![w].pc = "finish", ![w].result = Some(Err(err))]
    /\ UNCHANGED <<tasks, handles, permits, doc, files, nextId, nextWorker, verified, ret, starting>>

StreamErrors == {"chunk 0 stream read error", "chunk 0 write error"}

\* The stream is exhausted: the end of download_chunk.
stream_end(w) ==
    /\ Live(w)
    /\ workers[w].pc = "stream"
    /\ LET me == workers[w]
           chunk == Pending(me.task)[1]
       IN tasks' = IF me.tid \in DOMAIN tasks
                   THEN [tasks EXCEPT ![me.tid] =
                           MarkCompleted(tasks[me.tid], chunk.id, me.chunk_downloaded)]
                   ELSE tasks
    /\ workers' = [workers EXCEPT ![w].pc = "joined"]
    /\ UNCHANGED <<handles, permits, doc, files, nextId, nextWorker, verified, ret, starting>>

\* run_download after the chunks are joined: with a checksum the status
\* becomes Verifying, without one run_download returns Ok.
after_chunks(w) ==
    /\ Live(w)
    /\ workers[w].pc = "joined"
    /\ LET me == workers[w]
       IN IF me.task.sha256 # None \/ me.task.md5 # None
          THEN /\ tasks' = IF me.tid \in DOMAIN tasks
                           THEN [tasks EXCEPT ![me.tid].status = "Verifying"]
                           ELSE tasks
               /\ workers' = [workers EXCEPT ![w].pc = "verify"]
          ELSE /\ workers' = [workers EXCEPT ![w].pc = "finish"]
               /\ UNCHANGED tasks
    /\ UNCHANGED <<handles, permits, doc, files, nextId, nextWorker, verified, ret, starting>>

\* verify_sha256 / verify_md5: None is Ok(()), Some(e) is Err(e).  The
\* message of a mismatch holds the expected and the actual hex strings.
MismatchError(alg, expected, actual) ==
    [msg |-> alg, expected |-> expected, actual |-> actual]

verify_sha256(fs, path, expected) ==
    IF path \notin DOMAIN fs
    THEN Some(Err("No such file or directory"))
    ELSE LET actual == Sha256Hex(fs[path])
         IN IF EqIgnoreAsciiCase(actual, expected)
            THEN None
            ELSE Some(MismatchError("SHA256 mismatch", expected, actual))

verify_md5(fs, path, expected) ==
    IF path \notin DOMAIN fs
    THEN Some(Err("No such file or directory"))
    ELSE LET actual == Md5Hex(fs[path])
         IN IF EqIgnoreAsciiCase(actual, expected)
            THEN None
            ELSE Some(MismatchError("MD5 mismatch", expected, actual))

\* A verification that prefers the md5 checksum.
Verify_Md5First(task, fs) ==
    IF task.md5 # None
    THEN verify_md5(fs, task.dest_path, task.md5[1])
    ELSE verify_sha256(fs, task.dest_path, task.sha256[1])

\* The checksum run_download verifies: the sha256 one when it is given,
\* else the md5 one.
Verify(task, fs) ==
    IF task.sha256 # None
    THEN verify_sha256(fs, task.dest_path, task.sha256[1])
    ELSE verify_md5(fs, task.dest_path, task.md5[1])

verify(w) ==
    /\ Live(w)
    /\ workers[w].pc = "verify"
    /\ workers' = [workers EXCEPT ![w].pc = "finish",
                                  ![w].result = Verify(workers[w].task, files)]
    /\ verified' = IF Verify(workers[w].task, files) = None
                   THEN verified \cup {workers[w].task.dest_path}
                   ELSE verified
    /\ UNCHANGED <<tasks, handles, permits, doc, files, nextId, nextWorker, ret, starting>>

\* A failure that sets the status and loses the message.
Outcome_NoMessage(t, result) ==
    IF result = None
    THEN [t EXCEPT !.status = "Completed", !.progress = 100]
    ELSE [t EXCEPT !.status = "Error"]

\* A failure that leaves the task to be retried: the message is kept and the
\* status is Paused.
Outcome_FailureAsPaused(t, result) ==
    IF result = None
    THEN [t EXCEPT !.status = "Completed", !.progress = 100]
    ELSE [t EXCEPT !.status = "Paused", !.error = Some(result[1])]

\* The end of the spawned block: the result of run_download is written to the
\* store if the task is still there, the snapshot is persisted, and the
\* permit is dropped with the block.
Outcome(t, result) ==
    IF result = None
    THEN [t EXCEPT !.status = "Completed", !.progress = 100]
    ELSE [t EXCEPT !.status = "Error", !.error = Some(result[1])]

\* A finish whose failure aborts the other workers.
finish_AbortsSiblings(w) ==
    /\ Live(w)
    /\ workers[w].pc = "finish"
    /\ LET me == workers[w]
       IN /\ tasks' = IF me.tid \in DOMAIN tasks
                      THEN [tasks EXCEPT ![me.tid] = Outcome(tasks[me.tid], me.result)]
                      ELSE tasks
          /\ workers' = IF me.result = None
                        THEN Remove(workers, w)
                        ELSE [v \in DOMAIN workers \ {w} |->
                                [workers[v] EXCEPT !.pc = "aborted"]]
    /\ doc' = ToSave(tasks')
    /\ permits' = permits + 1
    /\ UNCHANGED <<handles, files, nextId, nextWorker, verified, ret, starting>>

\* A finish that keeps its permit.
finish_KeepsPermit(w) ==
    /\ Live(w)
    /\ workers[w].pc = "finish"
    /\ LET me == workers[w]
       IN tasks' = IF me.tid \in DOMAIN tasks
                   THEN [tasks EXCEPT ![me.tid] = Outcome(tasks[me.tid], me.result)]
                   ELSE tasks
    /\ doc' = ToSave(tasks')
    /\ workers' = Remove(workers, w)
    /\ UNCHANGED <<handles, permits, files, nextId, nextWorker, verified, ret, starting>>

finish(w) ==
    /\ Live(w)
    /\ workers[w].pc = "finish"
    /\ LET me == workers[w]
       IN tasks' = IF me.tid \in DOMAIN tasks
                   THEN [tasks EXCEPT ![me.tid] = Outcome(tasks[me.tid], me.result)]
                   ELSE tasks
    /\ doc' = ToSave(tasks')
    /\ permits' = permits + 1
    /\ workers' = Remove(workers, w)
    /\ UNCHANGED <<handles, files, nextId, nextWorker, verified, ret, starting>>

\* JoinHandle::abort: the worker takes no further step; its future, and the
\* permit it may hold, are dropped by the runtime later (drop_aborted).
Abort(ws, w) ==
    IF w \in DOMAIN ws THEN [ws EXCEPT ![w].pc = "aborted"] ELSE ws

\* A drop that does not give the permit back.
drop_aborted_KeepsPermit(w) ==
    /\ w \in DOMAIN workers
    /\ workers[w].pc = "aborted"
    /\ workers' = Remove(workers, w)
    /\ UNCHANGED <<tasks, handles, permits, doc, files, nextId, nextWorker, verified, ret, starting>>

drop_aborted(w) ==
    /\ w \in DOMAIN workers
    /\ workers[w].pc = "aborted"
    /\ permits' = IF workers[w].permit THEN permits + 1 ELSE permits
    /\ workers' = Remove(workers, w)
    /\ UNCHANGED <<tasks, handles, doc, files, nextId, nextWorker, verified, ret, starting>>

\* ------------------------------------------------------------------ pause_task
Paused(t) == [t EXCEPT !.status = "Paused", !.speed = 0]

\* A pause that does not persist.
pause_task_NoPersist(task_id) ==
    /\ workers' = IF task_id \in DOMAIN handles
                  THEN Abort(workers, handles[task_id])
                  ELSE workers
    /\ tasks' = IF task_id \in DOMAIN tasks
                THEN [tasks EXCEPT ![task_id] = Paused(tasks[task_id])]
                ELSE tasks
    /\ ret' = "Ok"
    /\ UNCHANGED <<handles, permits, doc, files, nextId, nextWorker, verified, starting>>

pause_task(task_id) ==
    /\ workers' = IF task_id \in DOMAIN handles
                  THEN Abort(workers, handles[task_id])
                  ELSE workers
    /\ tasks' = IF task_id \in DOMAIN tasks
                THEN [tasks EXCEPT ![task_id] = Paused(tasks[task_id])]
                ELSE tasks
    /\ doc' = persist(tasks')
    /\ ret' = "Ok"
    /\ UNCHANGED <<handles, permits, files, nextId, nextWorker, verified, starting>>

\* ------------------------------------------------------------------ cancel_task
\* A cancel that aborts the worker and leaves the task in the store.
cancel_task_KeepsTask(task_id) ==
    /\ workers' = IF task_id \in DOMAIN handles
                  THEN Abort(workers, handles[task_id])
                  ELSE workers
    /\ handles' = Remove(handles, task_id)
    /\ doc' = persist(tasks)
    /\ ret' = "Ok"
    /\ UNCHANGED <<tasks, permits, files, nextId, nextWorker, verified, starting>>

\* A cancel that also deletes the destination file.
cancel_task_DeletesFile(task_id) ==
    /\ workers' = IF task_id \in DOMAIN handles
                  THEN Abort(workers, handles[task_id])
                  ELSE workers
    /\ handles' = Remove(handles, task_id)
    /\ tasks' = Remove(tasks, task_id)
    /\ files' = IF task_id \in DOMAIN tasks
                THEN Remove(files, tasks[task_id].dest_path)
                ELSE files
    /\ doc' = persist(tasks')
    /\ ret' = "Ok"
    /\ UNCHANGED <<permits, nextId, nextWorker, verified, starting>>

cancel_task(task_id) ==
    /\ workers' = IF task_id \in DOMAIN handles
                  THEN Abort(workers, handles[task_id])
                  ELSE workers
    /\ handles' = Remove(handles, task_id)
    /\ tasks' = Remove(tasks, task_id)
    /\ doc' = persist(tasks')
    /\ ret' = "Ok"
    /\ UNCHANGED <<permits, files, nextId, nextWorker, verified, starting>>

\* ------------------------------------------------------------------ get_tasks, get_task
\* The clones of the records of the store.
get_tasks == {tasks[id] : id \in DOMAIN tasks}

get_task(task_id) == IF task_id \in DOMAIN tasks THEN Some(tasks[task_id]) ELSE None

\* ------------------------------------------------------------------ load_persisted
\* A demotion that forgets the Verifying tasks.
Demote_DownloadingOnly(t) ==
    IF t.status = "Downloading"
    THEN [t EXCEPT !.status = "Paused", !.speed = 0]
    ELSE t

\* A demotion that also resets the byte counts.
Demote_ResetsBytes(t) ==
    IF t.status \in {"Downloading", "Verifying"}
    THEN [t EXCEPT !.status = "Paused", !.speed = 0, !.downloaded_size = 0]
    ELSE t

\* What load_persisted makes of one saved task.
Demote(t) ==
    IF t.status \in {"Downloading", "Verifying"}
    THEN [t EXCEPT !.status = "Paused", !.speed = 0]
    ELSE t

\* load_persisted on the store `ts` with the document `d`.
LoadPersisted(ts, d) ==
    [id \in DOMAIN ts \cup DOMAIN d |-> IF id \in DOMAIN d THEN Demote(d[id]) ELSE ts[id]]

\* The process ends (its workers with it) and starts again: new builds an
\* empty manager and load_persisted fills its store from the document.
restart ==
    /\ tasks' = LoadPersisted(EmptyMap, doc)
    /\ handles' = EmptyMap
    /\ permits' = MaxConcurrent
    /\ workers' = EmptyMap
    /\ ret' = ""
    /\ starting' = EmptyMap
    /\ UNCHANGED <<doc, files, nextId, nextWorker, verified>>

\* The steps of worker w, with the failures drawn from the given sets.
WorkerStep(w, outcomes, errors) ==
    \/ acquire(w)
    \/ \E o \in outcomes : begin_chunk(w, o)
    \/ \E n \in 1..MaxBuf : stream_buffer(w, n)
    \/ \E e \in errors : stream_error(w, e)
    \/ stream_end(w)
    \/ after_chunks(w)
    \/ verify(w)
    \/ finish(w)

WorkerSteps(outcomes, errors) ==
    \/ \E w \in WorkerIds : WorkerStep(w, outcomes, errors)
    \/ \E w \in WorkerIds : drop_aborted(w)

WorkerNext == WorkerSteps(BeginOutcomes, StreamErrors)

\* One task's whole life: every kind of task, every call, restarts.
Next ==
    \/ /\ nextId <= MaxTasks
       /\ \E n \in Sizes, known \in BOOLEAN, failed \in BOOLEAN :
            \E sums \in ChecksumChoices(n) :
              create_task(IF known THEN Some(n) ELSE None,
                          IF failed THEN None ELSE Some(n), sums[1], sums[2])
    \/ \E id \in TaskIds, dir_ok \in BOOLEAN : StartBounded(id, dir_ok, MaxWorkers)
    \/ \E id \in TaskIds : pause_task(id)
    \/ \E id \in TaskIds : cancel_task(id)
    \/ restart
    \/ WorkerNext

Spec == Init /\ [][Next]_vars

\* The permit pool: several tasks as the install command creates them (size
\* known, md5 given), started, paused and cancelled in any order; a transfer
\* may fail at its request or in its stream.
PoolWorkerNext ==
    WorkerSteps({"ok", "chunk 0 GET failed"}, {"chunk 0 stream read error"})

PoolNext ==
    \/ /\ nextId <= PoolTasks
       /\ create_task(Some(MaxSize), None, None, Some(Md5Hex(GoodFile(MaxSize))))
    \/ \E id \in PoolIds : StartBounded(id, TRUE, MaxWorkers)
    \/ \E id \in PoolIds : pause_task(id)
    \/ \E id \in PoolIds : cancel_task(id)
    \/ PoolWorkerNext

PoolSpec == Init /\ [][PoolNext]_vars
\* The permit pool with no pause and no cancel: every call to start_task
\* succeeds, the runtime keeps polling each spawned worker and the server
\* answers it (weak fairness of its steps), and the semaphore, which is fair,
\* serves every waiter once a permit is free again (strong fairness of acquire).
LiveWorkerStep(w) ==
    WorkerStep(w, {"ok", "chunk 0 GET failed"}, {"chunk 0 stream read error"})

LiveNext ==
    \/ /\ nextId <= PoolTasks
       /\ create_task(Some(MaxSize), None, None, Some(Md5Hex(GoodFile(MaxSize))))
    \/ \E id \in PoolIds : StartBounded(id, TRUE, MaxWorkers)
    \/ \E w \in WorkerIds : LiveWorkerStep(w)

LiveSpec ==
    /\ Init
    /\ [][LiveNext]_vars
    /\ \A w \in WorkerIds : WF_vars(LiveWorkerStep(w)) /\ SF_vars(acquire(w))

\* One task of known size started, paused and started again, up to
\* ResumeWorkers times; a transfer may fail in its stream.
ResumeNext ==
    \/ /\ nextId <= MaxTasks
       /\ \E sums \in ChecksumChoices(MaxSize) :
            create_task(Some(MaxSize), None, sums[1], sums[2])
    \/ \E id \in 1..MaxTasks : StartBounded(id, TRUE, ResumeWorkers)
    \/ \E id \in 1..MaxTasks : pause_task(id)
    \/ \E w \in 1..ResumeWorkers :
          WorkerStep(w, {"ok"}, {"chunk 0 stream read error"})
    \/ \E w \in 1..ResumeWorkers : drop_aborted(w)

ResumeSpec == Init /\ [][ResumeNext]_vars

\* One task started, paused and cancelled, with start_task taken in its two
\* steps so that a pause or a cancel can fall between them.
RaceNext ==
    \/ /\ nextId <= MaxTasks
       /\ create_task(Some(MaxSize), None, None, Some(Md5Hex(GoodFile(MaxSize))))
    \/ \E id \in 1..MaxTasks : nextWorker <= MaxWorkers /\ start_task_spawn(id)
    \/ \E w \in WorkerIds : start_task_register(w)
    \/ \E id \in 1..MaxTasks : pause_task(id)
    \/ \E id \in 1..MaxTasks : cancel_task(id)
    \/ PoolWorkerNext

RaceSpec == Init /\ [][RaceNext]_vars

\* One task of known size with every combination of checksums, started and
\* started again; every request succeeds and the server sends as many bytes
\* as it likes.
ChecksumWorkerStep(w) ==
    \/ acquire(w)
    \/ begin_chunk(w, "ok")
    \/ \E n \in 1..MaxBuf : stream_buffer(w, n)
    \/ stream_end(w)
    \/ after_chunks(w)
    \/ verify(w)
    \/ finish(w)

ChecksumNext ==
    \/ /\ nextId <= MaxTasks
       /\ \E sums \in ChecksumPairs(MaxSize) :
            create_task(Some(MaxSize), None, sums[1], sums[2])
    \/ \E id \in 1..MaxTasks : StartBounded(id, TRUE, MaxWorkers)
    \/ \E w \in WorkerIds : ChecksumWorkerStep(w)

ChecksumSpec == Init /\ [][ChecksumNext]_vars

\* Tasks of every kind created next to one another, paused and cancelled.
CreateNext ==
    \/ /\ nextId <= PoolTasks
       /\ \E n \in Sizes, known \in BOOLEAN, failed \in BOOLEAN :
            \E sums \in ChecksumChoices(n) :
              create_task(IF known THEN Some(n) ELSE None,
                          IF failed THEN None ELSE Some(n), sums[1], sums[2])
    \/ \E id \in PoolIds : pause_task(id)
    \/ \E id \in PoolIds : cancel_task(id)

CreateSpec == Init /\ [][CreateNext]_vars

\* The round trip of a file: tasks of every known size, without a checksum,
\* each started once while it is Pending (no file is on disk yet), never
\* paused or cancelled; every request succeeds and the server sends exactly
\* total_size bytes before it ends the stream.  Fairness as in LiveSpec.
RoundTripSizes == 1..MaxSize

RoundTripStart(id) ==
    /\ id \in DOMAIN tasks
    /\ tasks[id].status = "Pending"
    /\ StartBounded(id, TRUE, MaxWorkers)

RoundTripWorkerStep(w) ==
    \/ acquire(w)
    \/ begin_chunk(w, "ok")
    \/ \E n \in 1..MaxBuf :
          /\ stream_buffer(w, n)
          /\ workers[w].chunk_downloaded + n <= workers[w].task.total_size
    \/ /\ stream_end(w)
       /\ workers[w].chunk_downloaded = workers[w].task.total_size
    \/ after_chunks(w)
    \/ finish(w)

RoundTripNext ==
    \/ /\ nextId <= PoolTasks
       /\ \E n \in RoundTripSizes : create_task(Some(n), None, None, None)
    \/ \E id \in PoolIds : RoundTripStart(id)
    \/ \E w \in WorkerIds : RoundTripWorkerStep(w)

RoundTripSpec ==
    /\ Init
    /\ [][RoundTripNext]_vars
    /\ \A w \in WorkerIds : WF_vars(RoundTripWorkerStep(w)) /\ SF_vars(acquire(w))

\* ------------------------------------------------------------------ properties
\* The workers that hold a permit and are transferring or verifying.
PermitHolders ==
    {w \in DOMAIN workers :
        workers[w].permit /\ workers[w].pc \in {"run", "stream", "joined", "verify", "finish"}}

\* C1: whatever create, start, pause and cancel calls are made, the workers
\* that have acquired a permit and have neither finished nor been aborted
\* are never more than the size of the limiter.
C1_PermitHoldersBounded == Cardinality(PermitHolders) <= MaxConcurrent

\* C1's case: every permit is taken and another worker waits for one.
C1_Witness ==
    /\ Cardinality(PermitHolders) = MaxConcurrent
    /\ \E w \in DOMAIN workers : workers[w].pc = "acquire"

\* The tasks of the store that report status Downloading.
Downloading == {id \in DOMAIN tasks : tasks[id].status = "Downloading"}

\* C2 as claimed: never more than N tasks of the store report Downloading.
C2_AtMostNDownloading == Cardinality(Downloading) <= MaxConcurrent

\* C2 as amended: never more than N tasks of the store report Downloading
\* while a worker of theirs holds a permit; a task whose worker still waits
\* for a permit reports Downloading too.
C2_AtMostNDownloadingWithPermit ==
    Cardinality({id \in Downloading : \E w \in PermitHolders : workers[w].tid = id})
        <= MaxConcurrent

\* C2's case: more tasks than permits are started; one transfers, another
\* reports Downloading while its worker waits.
C2_Witness ==
    \E a \in Downloading, b \in Downloading :
        /\ a # b
        /\ \E w \in PermitHolders : workers[w].tid = a /\ workers[w].pc = "stream"
        /\ \E w \in DOMAIN workers : workers[w].tid = b /\ workers[w].pc = "acquire"

\* C3: a transfer resumed at k bytes (0 < k < total size) leaves the bytes
\* [0, k) of the destination file as they were when start_task found them.
C3_ResumeKeepsPrefix ==
    \A w \in DOMAIN workers :
        LET me == workers[w]
            k == Len(me.resumed)
        IN k > 0 =>
             /\ me.task.dest_path \in DOMAIN files
             /\ Len(files[me.task.dest_path]) >= k
             /\ SubSeq(files[me.task.dest_path], 1, k) = me.resumed

\* C4: a task created with an expected checksum is Completed only if a
\* verification of its destination file, run after the last write to that
\* file, found the expected digest.
C4_CompletedIsVerified ==
    \A id \in DOMAIN tasks :
        LET t == tasks[id]
        IN (t.status = "Completed" /\ (t.sha256 # None \/ t.md5 # None))
              => t.dest_path \in verified

\* C5: with more tasks started than there are permits, no pause and no
\* cancel, and every worker that holds a permit finishing in the end, every
\* started task gets a permit and reaches Completed or Error, and no task
\* leaves the store.
C5_EveryStartedTaskEnds ==
    /\ \A id \in PoolIds :
          (id \in DOMAIN handles) ~> (id \in DOMAIN tasks /\ Terminal(tasks[id].status))
    /\ \A w \in WorkerIds :
          (w \in DOMAIN workers /\ workers[w].pc = "acquire")
             ~> (w \in DOMAIN workers /\ workers[w].permit)
    /\ [][DOMAIN tasks \subseteq DOMAIN tasks']_vars

\* C5's case: more tasks than permits were started and all of them ended.
C5_Witness ==
    /\ Cardinality(DOMAIN handles) > MaxConcurrent
    /\ \A id \in DOMAIN handles : id \in DOMAIN tasks /\ Terminal(tasks[id].status)
    /\ workers = EmptyMap
    /\ permits = MaxConcurrent

\* Whether a worker's result is a checksum mismatch.
IsMismatch(result) == result # None /\ "expected" \in DOMAIN result[1]

\* C6: when the verification finds a digest that differs from the expected
\* one, it fails with a message that holds the expected and the actual
\* digest, and the worker's last step leaves the task in the store with
\* status Error and that message, and the destination file on disk.
C6_MismatchEndsInError ==
    [][\A w \in WorkerIds :
         /\ (/\ verify(w)
             /\ workers[w].task.dest_path \in DOMAIN files
             /\ LET task == workers[w].task
                    expected == IF task.sha256 # None THEN task.sha256[1] ELSE task.md5[1]
                    actual == IF task.sha256 # None
                              THEN Sha256Hex(files[task.dest_path])
                              ELSE Md5Hex(files[task.dest_path])
                IN actual.of # expected.of)
            => LET task == workers[w].task
                   expected == IF task.sha256 # None THEN task.sha256[1] ELSE task.md5[1]
                   actual == IF task.sha256 # None
                             THEN Sha256Hex(files[task.dest_path])
                             ELSE Md5Hex(files[task.dest_path])
               IN /\ IsMismatch(workers'[w].result)
                  /\ workers'[w].result[1].expected = expected
                  /\ workers'[w].result[1].actual = actual
         /\ (/\ finish(w)
             /\ IsMismatch(workers[w].result)
             /\ workers[w].tid \in DOMAIN tasks)
            => LET id == workers[w].tid
               IN /\ id \in DOMAIN tasks'
                  /\ tasks'[id].status = "Error"
                  /\ tasks'[id].error = workers[w].result
                  /\ files' = files
                  /\ tasks'[id].dest_path \in DOMAIN files'
      ]_vars

\* C6's case: a task in Error with a mismatch message, its file on disk.
C6_Witness ==
    \E id \in DOMAIN tasks :
        /\ tasks[id].status = "Error"
        /\ IsMismatch(tasks[id].error)
        /\ tasks[id].error[1].expected.of # tasks[id].error[1].actual.of
        /\ tasks[id].dest_path \in DOMAIN files

\* The document holds exactly the tasks of store ts that are neither
\* Completed nor Error, each with its record in ts.
IsSnapshotOf(d, ts) ==
    /\ DOMAIN d = {id \in DOMAIN ts : ts[id].status \notin {"Completed", "Error"}}
    /\ \A id \in DOMAIN d : d[id] = ts[id]

\* C7: after a create, a pause, a cancel and a worker's last step, the
\* persisted document holds exactly the tasks of the store that are neither
\* Completed nor Error, each with the store's current record.
C7_DocAfterMutation ==
    [][(\/ nextId' # nextId
        \/ \E id \in PoolIds : pause_task(id)
        \/ \E id \in PoolIds : cancel_task(id)
        \/ \E w \in WorkerIds : finish(w))
       => IsSnapshotOf(doc', tasks')]_vars

\* C7's case: the store holds a task that ended and one that did not, and the
\* document holds the second alone.
C7_Witness ==
    \E a \in DOMAIN tasks, b \in DOMAIN tasks :
        /\ Terminal(tasks[a].status)
        /\ ~Terminal(tasks[b].status)
        /\ DOMAIN doc = {b}
        /\ doc[b] = tasks[b]

\* C8: load_persisted on a fresh manager leaves no task Downloading or
\* Verifying: a persisted task with one of these statuses is loaded as Paused
\* with speed 0, every other one as it was persisted.
C8_LoadDemotes ==
    [][restart =>
         /\ DOMAIN tasks' = DOMAIN doc
         /\ \A id \in DOMAIN tasks' :
               /\ tasks'[id].status \notin {"Downloading", "Verifying"}
               /\ IF doc[id].status \in {"Downloading", "Verifying"}
                  THEN tasks'[id] = [doc[id] EXCEPT !.status = "Paused", !.speed = 0]
                  ELSE tasks'[id] = doc[id]
      ]_vars

\* C8's case: a task persisted as Verifying has been loaded as Paused.
C8_Witness ==
    \E id \in DOMAIN tasks :
        /\ id \in DOMAIN doc
        /\ doc[id].status = "Verifying"
        /\ tasks[id] = [doc[id] EXCEPT !.status = "Paused", !.speed = 0]
        /\ workers = EmptyMap

\* C9: the document only ever changes to the non-terminal tasks of the store
\* at that moment, and a restart yields a store that holds exactly the
\* document's tasks with the same id, total size, downloaded size and
\* chunks; a task that was Completed or Error before the restart is gone.
C9_RestartRoundTrip ==
    [][/\ doc' # doc => IsSnapshotOf(doc', tasks')
       /\ restart =>
            /\ DOMAIN tasks' = DOMAIN doc
            /\ \A id \in DOMAIN doc :
                  /\ tasks'[id].id = doc[id].id
                  /\ tasks'[id].total_size = doc[id].total_size
                  /\ tasks'[id].downloaded_size = doc[id].downloaded_size
                  /\ tasks'[id].chunks = doc[id].chunks
            /\ \A id \in DOMAIN tasks :
                  Terminal(tasks[id].status) => id \notin DOMAIN tasks'
      ]_vars

\* C9's case: a task persisted while Downloading with bytes on disk has been
\* loaded with its byte counts.
C9_Witness ==
    \E id \in DOMAIN tasks :
        /\ id \in DOMAIN doc
        /\ doc[id].status = "Downloading"
        /\ doc[id].downloaded_size > 0
        /\ tasks[id].status = "Paused"
        /\ tasks[id].downloaded_size = doc[id].downloaded_size
        /\ tasks[id].chunks = doc[id].chunks
        /\ handles = EmptyMap

\* C10: when pause_task returns for a task of the store, the task is still
\* in the store with status Paused and speed 0, and the persisted document
\* records it with status Paused.
C10_PauseLeavesPaused ==
    [][\A id \in TaskIds :
         (pause_task(id) /\ id \in DOMAIN tasks) =>
            /\ id \in DOMAIN tasks'
            /\ tasks'[id].status = "Paused"
            /\ tasks'[id].speed = 0
            /\ id \in DOMAIN doc'
            /\ doc'[id].status = "Paused"
      ]_vars

\* C10's case: a task whose transfer was running is Paused in the store and
\* in the document, its worker aborted.
C10_Witness ==
    \E id \in DOMAIN tasks, w \in DOMAIN workers :
        /\ tasks[id].status = "Paused"
        /\ id \in DOMAIN doc
        /\ doc[id].status = "Paused"
        /\ workers[w].tid = id
        /\ workers[w].pc = "aborted"
        /\ workers[w].chunk_downloaded > 0

\* The ids of the tasks created so far.
Created == 1..(nextId - 1)

\* C11: when cancel_task returns, the task is absent from get_tasks, from
\* get_task and from the persisted document; a task that has left the store
\* never comes back to the store or to the document; and a worker whose last
\* step finds no task of its id changes no record of the store.
C11_CancelledStaysGone ==
    [][/\ \A id \in TaskIds :
             cancel_task(id) =>
                /\ get_task(id)' = None
                /\ \A t \in get_tasks' : t.id # id
                /\ id \notin DOMAIN doc'
       /\ \A id \in Created :
             id \notin DOMAIN tasks => (id \notin DOMAIN tasks' /\ id \notin DOMAIN doc')
       /\ \A w \in WorkerIds :
             (finish(w) /\ workers[w].tid \notin DOMAIN tasks) => tasks' = tasks
      ]_vars

\* C11's case: the task was cancelled while two workers of it ran; the one
\* in the handle table is aborted, the other one, which no abort reached,
\* has written the whole file and stands at its last step.
C11_Witness ==
    \E w \in DOMAIN workers, a \in DOMAIN workers :
        /\ workers[w].tid \in Created
        /\ workers[w].tid \notin DOMAIN tasks
        /\ workers[w].tid \notin DOMAIN doc
        /\ workers[w].pc = "finish"
        /\ workers[w].result = None
        /\ workers[a].tid = workers[w].tid
        /\ workers[a].pc = "aborted"
        /\ ret = "Ok"

\* C12: pause_task on a task whose status is already Paused, Completed or
\* Error returns Ok and leaves the task's record as it was.
C12_PauseIsNoOpWhenEnded ==
    [][\A id \in TaskIds :
         (/\ pause_task(id)
          /\ id \in DOMAIN tasks
          /\ tasks[id].status \in {"Paused", "Completed", "Error"})
            => (ret' = "Ok" /\ tasks'[id] = tasks[id])
      ]_vars

\* The task has status Completed, progress 100, downloaded_size equal to its
\* total size, and a destination file of that length.
RoundTripDone(id) ==
    /\ id \in DOMAIN tasks
    /\ tasks[id].status = "Completed"
    /\ tasks[id].progress = 100
    /\ tasks[id].downloaded_size = tasks[id].total_size
    /\ tasks[id].dest_path \in DOMAIN files
    /\ Len(files[tasks[id].dest_path]) = tasks[id].total_size

\* C13: a task created with a known size n > 0 and no checksum, started with
\* no file on disk, never paused or cancelled and served exactly n bytes,
\* eventually has status Completed, progress 100, downloaded_size n and a
\* destination file of length n.
C13_RoundTripCompletes ==
    \A id \in PoolIds : (id \in DOMAIN handles) ~> RoundTripDone(id)

\* C13's case: tasks of the largest size and of another size have both been
\* transferred to the end.
C13_Witness ==
    /\ \A id \in PoolIds : RoundTripDone(id)
    /\ \E id \in PoolIds : tasks[id].total_size = MaxSize
    /\ \E id \in PoolIds : tasks[id].total_size < MaxSize
    /\ workers = EmptyMap

\* C14: in every reachable state every task of the store has a
\* downloaded_size equal to the sum of the downloaded counts of its chunks.
C14_DownloadedIsSumOfChunks ==
    \A id \in DOMAIN tasks : tasks[id].downloaded_size = SumDownloaded(tasks[id].chunks)

\* C14's case: a start has reconciled the record with a partial file on disk
\* (the chunk is not completed and some bytes are counted).
C14_Witness ==
    \E id \in DOMAIN tasks :
        /\ tasks[id].downloaded_size > 0
        /\ tasks[id].downloaded_size < tasks[id].total_size
        /\ ~tasks[id].chunks[1].completed
        /\ tasks[id].status = "Downloading"

\* C15: at every start that spawns a worker, the offset the worker transfers
\* from is the length of the destination file when that length is in
\* (0, total size), and 0 when the file is absent or empty, whatever
\* downloaded count the store held for the chunk.
C15_StartOffsetFromFile ==
    [][\A id \in TaskIds :
         (id \in DOMAIN tasks /\ start_task(id, TRUE) /\ nextWorker' # nextWorker) =>
            LET task == workers'[nextWorker].task
                len == IF DestPath(id) \in DOMAIN files THEN Len(files[DestPath(id)]) ELSE 0
            IN /\ (0 < len /\ len < task.total_size) => StartOffset(task) = len
               /\ len = 0 => StartOffset(task) = 0
      ]_vars

\* C16: the start that follows a checksum mismatch (the task is in Error with
\* the mismatch message) does not set the task Completed: it spawns a worker
\* that transfers the whole file again, from byte 0.
C16_MismatchForcesRedownload ==
    [][\A id \in TaskIds :
         (/\ id \in DOMAIN tasks
          /\ tasks[id].status = "Error"
          /\ IsMismatch(tasks[id].error)
          /\ start_task(id, TRUE))
            => /\ tasks'[id].status = "Downloading"
               /\ nextWorker' # nextWorker
               /\ Pending(workers'[nextWorker].task) # <<>>
               /\ StartOffset(workers'[nextWorker].task) = 0
      ]_vars

\* C17: start_task on an id that the store does not hold returns the error
\* "Task not found", spawns no worker, takes no permit and leaves the store,
\* the handle table and the persisted document as they were.
C17_StartUnknownFails ==
    [][\A id \in TaskIds, dir_ok \in BOOLEAN :
         (id \notin DOMAIN tasks /\ start_task(id, dir_ok)) =>
            /\ ret' = "Task not found"
            /\ UNCHANGED <<tasks, handles, doc, workers, nextWorker, permits>>
      ]_vars

\* C17's case: start_task has just returned "Task not found" while the store
\* holds a task, the document records it and a worker holds the only permit.
C17_Witness ==
    /\ ret = "Task not found"
    /\ DOMAIN tasks # {}
    /\ DOMAIN doc # {}
    /\ DOMAIN handles # {}
    /\ permits = 0

\* C18: create_task without a known size whose HEAD request fails returns
\* that failure, inserts no task and leaves the persisted document as it
\* was; create_task with a known size returns Ok with a new task of that
\* size whatever a HEAD request would have answered (none is made).
C18_ProbeFailureInsertsNothing ==
    [][\A n \in Sizes :
         \A probe \in {None, Some(n)}, sums \in ChecksumChoices(n) :
            /\ create_task(None, None, sums[1], sums[2]) =>
                  /\ ret' = "HEAD request failed"
                  /\ tasks' = tasks
                  /\ doc' = doc
                  /\ nextId' = nextId
            /\ create_task(Some(n), probe, sums[1], sums[2]) =>
                  /\ ret' = "Ok"
                  /\ DOMAIN tasks' = DOMAIN tasks \cup {nextId}
                  /\ nextId \notin DOMAIN tasks
                  /\ tasks'[nextId].total_size = n
                  /\ tasks'[nextId].status = "Pending"
      ]_vars

\* C18's case: create_task has just returned the failure of its HEAD
\* request; no task was ever inserted and the document is empty.
C18_Witness ==
    /\ ret = "HEAD request failed"
    /\ nextId = 1
    /\ tasks = EmptyMap
    /\ doc = EmptyMap

\* C19: when a worker's last step records a failure (its task becomes
\* Error), the record of every other task is unchanged by that step, every
\* other worker is as it was (none aborted, none without its permit), the
\* handle table is unchanged and the failed worker's permit is back in the
\* pool; and whenever a permit is free, a waiting worker can acquire it.
C19_FailureLeavesSiblings ==
    /\ [][\A w \in WorkerIds :
            (/\ finish(w)
             /\ workers[w].result # None
             /\ workers[w].tid \in DOMAIN tasks)
               => /\ tasks'[workers[w].tid].status = "Error"
                  /\ \A id \in DOMAIN tasks \ {workers[w].tid} :
                        id \in DOMAIN tasks' /\ tasks'[id] = tasks[id]
                  /\ \A v \in DOMAIN workers \ {w} :
                        v \in DOMAIN workers' /\ workers'[v] = workers[v]
                  /\ handles' = handles
                  /\ permits' = permits + 1
         ]_vars
    /\ [](\A v \in WorkerIds :
            (Live(v) /\ workers[v].pc = "acquire" /\ permits > 0) => ENABLED acquire(v))

\* C19's case: one task is in Error after its transfer failed, and the
\* worker of another task, which had waited, now transfers with the permit.
C19_Witness ==
    \E a \in DOMAIN tasks, b \in DOMAIN tasks, v \in DOMAIN workers :
        /\ a # b
        /\ tasks[a].status = "Error"
        /\ tasks[a].error # None
        /\ tasks[b].status = "Downloading"
        /\ workers[v].tid = b
        /\ workers[v].permit
        /\ workers[v].pc = "stream"
        /\ permits = 0

C21_AlreadyCompleteShortcut ==
    [][\A id \in TaskIds, dir_ok \in BOOLEAN :
         (/\ id \in DOMAIN tasks
          /\ tasks[id].total_size > 0
          /\ DestPath(id) \in DOMAIN files
          /\ Len(files[DestPath(id)]) >= tasks[id].total_size
          /\ start_task(id, dir_ok))
            => /\ tasks'[id].status = "Completed"
               /\ tasks'[id].progress = 100
               /\ IsSnapshotOf(doc', tasks')
               /\ ret' = "Ok"
               /\ workers' = workers
               /\ nextWorker' = nextWorker
               /\ handles' = handles
               /\ permits' = permits
      ]_vars

\* C21's case: a task is Completed though its chunk was never marked
\* completed: only the branch of start_task for a file already on disk does
\* that.  The document does not hold the task.
C21_Witness ==
    \E id \in DOMAIN tasks :
        /\ tasks[id].status = "Completed"
        /\ tasks[id].progress = 100
        /\ ~tasks[id].chunks[1].completed
        /\ Len(files[DestPath(id)]) >= tasks[id].total_size
        /\ id \notin DOMAIN doc
        /\ ret = "Ok"

\* The changes of status of the claimed state machine.
StatusMachine ==
    { <<"Pending", "Downloading">>,
      <<"Downloading", "Paused">>, <<"Paused", "Downloading">>,
      <<"Downloading", "Verifying">>, <<"Verifying", "Completed">>,
      <<"Downloading", "Completed">>,
      <<"Downloading", "Error">>, <<"Verifying", "Error">> }

\* C22: every change of the status of a task of the store is one of the
\* state machine (Pending -> Downloading, Downloading <-> Paused,
\* Downloading -> Verifying -> Completed, Downloading -> Completed,
\* Downloading/Verifying -> Error); a task in Completed or Error therefore
\* keeps its status for as long as it is in the store.
C22_StatusFollowsMachine ==
    [][\A id \in DOMAIN tasks \cap DOMAIN tasks' :
         tasks'[id].status # tasks[id].status
            => <<tasks[id].status, tasks'[id].status>> \in StatusMachine
      ]_vars

\* C23: while a task is in Error (no start_task has been called on it since
\* it entered Error: start_task overwrites the status), no worker of that
\* task is waiting, transferring or verifying.
C23_NoWorkerWhileError ==
    \A id \in DOMAIN tasks :
        tasks[id].status = "Error" => ~\E w \in WorkerIds : Live(w) /\ workers[w].tid = id

\* C24: when pause_task or cancel_task returns for a task, no worker of that
\* task is waiting for a permit, transferring, verifying or about to write
\* its result, also when the call falls between the spawn of a worker by
\* start_task and the insertion of its handle.
C24_NoWorkerAfterPauseOrCancel ==
    [][\A id \in 1..MaxTasks :
         (pause_task(id) \/ cancel_task(id))
            => ~\E w \in WorkerIds : Live(w)' /\ workers'[w].tid = id
      ]_vars

\* The workers whose block holds a permit (_permit is bound), the aborted
\* ones whose future the runtime has not dropped yet included.
Holding == {w \in DOMAIN workers : workers[w].permit}

\* C25: a worker that issues its GET, transfers, verifies or writes its
\* result holds a permit, and one that waits holds none; the free permits
\* and the workers that hold one always add up to N, each worker holding at
\* most one from its acquire to its last step or to its abort; when no
\* worker is left every permit is free.
C25_PermitsConserved ==
    /\ \A w \in DOMAIN workers :
          /\ workers[w].pc \in {"run", "stream", "joined", "verify", "finish"}
                => workers[w].permit
          /\ workers[w].pc = "acquire" => ~workers[w].permit
    /\ permits \in 0..MaxConcurrent
    /\ permits + Cardinality(Holding) = MaxConcurrent
    /\ workers = EmptyMap => permits = MaxConcurrent

\* C25's case: every worker that could be spawned has come and gone, one of
\* them finished and one aborted by a pause, and the pool is full again.
C25_Witness ==
    /\ workers = EmptyMap
    /\ nextWorker > MaxWorkers
    /\ permits = MaxConcurrent
    /\ \E a \in DOMAIN tasks, b \in DOMAIN tasks :
          /\ Terminal(tasks[a].status)
          /\ tasks[b].status = "Paused"
          /\ DestPath(b) \in DOMAIN files

\* C26: when start_task has spawned a worker and returned, the persisted
\* document records the task with status Downloading and with the chunk
\* offset that start_task computed from the file on disk.
C26_StartPersistsDownloading ==
    [][\A id \in TaskIds :
         (id \in DOMAIN tasks /\ start_task(id, TRUE) /\ nextWorker' # nextWorker)
            => /\ id \in DOMAIN doc'
               /\ doc'[id].status = "Downloading"
               /\ doc'[id].chunks = tasks'[id].chunks
               /\ doc'[id].downloaded_size = tasks'[id].downloaded_size
      ]_vars

\* C27: the GET of a worker whose offset is k = chunk.start +
\* chunk.downloaded carries a Range header iff k > 0, with the value
\* bytes=k-<chunk.end>, and the first buffer it receives is written at file
\* offset k; and a start_task that finds k bytes on disk, 0 < k < total
\* size, leaves the chunk with downloaded k and not completed, and
\* downloaded_size k.
C27_RangeIffResuming ==
    [][/\ \A w \in WorkerIds :
            /\ (/\ \E o \in BeginOutcomes : begin_chunk(w, o)
                /\ workers'[w].request # None)
                  => LET chunk == Pending(workers[w].task)[1]
                         k == chunk.start + chunk.downloaded
                         range == workers'[w].request[1].range
                     IN /\ (k > 0) <=> (range # None)
                        /\ k > 0 => range[1] = [unit |-> "bytes", first |-> k, last |-> chunk.end]
                        /\ workers'[w].pc = "stream"
                              => chunk.start + workers'[w].chunk_downloaded = k
            /\ \A n \in 1..MaxBuf :
                  (/\ stream_buffer(w, n)
                   /\ workers[w].chunk_downloaded = Pending(workers[w].task)[1].downloaded)
                     => LET chunk == Pending(workers[w].task)[1]
                            k == chunk.start + chunk.downloaded
                            path == workers[w].task.dest_path
                        IN /\ Len(files'[path]) >= k + n
                           /\ SubSeq(files'[path], k + 1, k + n) = Repeat(1, n)
                           /\ \A i \in 1..Len(files[path]) :
                                 (i <= k \/ i > k + n) => files'[path][i] = files[path][i]
       /\ \A id \in TaskIds :
            (/\ id \in DOMAIN tasks
             /\ DestPath(id) \in DOMAIN files
             /\ Len(files[DestPath(id)]) > 0
             /\ Len(files[DestPath(id)]) < tasks[id].total_size
             /\ \E dir_ok \in BOOLEAN : start_task(id, dir_ok))
               => /\ tasks'[id].chunks[1].downloaded = Len(files[DestPath(id)])
                  /\ ~tasks'[id].chunks[1].completed
                  /\ tasks'[id].downloaded_size = Len(files[DestPath(id)])
      ]_vars

\* C27's case: a worker resumed at offset 1 has sent bytes=1-<end> and has
\* written its first buffer at offset 1.
C27_Witness ==
    \E w \in DOMAIN workers :
        /\ workers[w].pc = "stream"
        /\ workers[w].task.chunks[1].downloaded = 1
        /\ workers[w].request = Some([range |-> Some([unit |-> "bytes", first |-> 1,
                                                      last |-> workers[w].task.chunks[1].end])])
        /\ workers[w].chunk_downloaded = 2
        /\ Len(files[workers[w].task.dest_path]) = 2
        /\ files[workers[w].task.dest_path][2] = 1

\* C28: a create_task that succeeds inserts exactly one task, under an id
\* that no task has or had, with status Pending, downloaded_size 0,
\* progress 0, speed 0, no error and one chunk with start 0, end
\* total_size - 1 (0 when total_size is 0), downloaded 0 and not completed;
\* it changes no other task and persists the store.
C28_CreateInsertsOnePendingTask ==
    [][nextId' # nextId =>
         /\ ret' = "Ok"
         /\ nextId \notin DOMAIN tasks
         /\ nextId \notin Created
         /\ DOMAIN tasks' = DOMAIN tasks \cup {nextId}
         /\ \A id \in DOMAIN tasks : tasks'[id] = tasks[id]
         /\ LET t == tasks'[nextId]
            IN /\ t.id = nextId
               /\ t.status = "Pending"
               /\ t.downloaded_size = 0
               /\ t.progress = 0
               /\ t.speed = 0
               /\ t.error = None
               /\ Len(t.chunks) = 1
               /\ t.chunks[1].start = 0
               /\ t.chunks[1].end = (IF t.total_size = 0 THEN 0 ELSE t.total_size - 1)
               /\ t.chunks[1].downloaded = 0
               /\ ~t.chunks[1].completed
         /\ IsSnapshotOf(doc', tasks')
      ]_vars

\* C28's case: a task of unknown size has just been created next to a
\* paused one; both are in the store and in the document.
C28_Witness ==
    \E a \in DOMAIN tasks, b \in DOMAIN tasks :
        /\ a < b
        /\ nextId = b + 1
        /\ tasks[a].status = "Paused"
        /\ tasks[b].status = "Pending"
        /\ tasks[b].total_size = 0
        /\ tasks[b].chunks[1].end = 0
        /\ DOMAIN doc = {a, b}
        /\ ret = "Ok"

\* C29: in every reachable state every chunk of every task has downloaded
\* <= end - start + 1, and start <= end when the task's total size is
\* known (> 0).
C29_ChunkWithinRange ==
    \A id \in DOMAIN tasks :
        \A i \in DOMAIN tasks[id].chunks :
            LET c == tasks[id].chunks[i]
            IN /\ c.downloaded <= c.end - c.start + 1
               /\ tasks[id].total_size > 0 => c.start <= c.end

\* C30: in every reachable state a task all of whose chunks are marked
\* completed has status Verifying or Completed.
C30_CompletedChunksMeanVerifyingOrCompleted ==
    \A id \in DOMAIN tasks :
        (\A i \in DOMAIN tasks[id].chunks : tasks[id].chunks[i].completed)
            => tasks[id].status \in {"Verifying", "Completed"}

\* C31: in every reachable state a task carries an error message only if
\* its status is Error: a task that left Error through start or pause, or
\* that completed later, carries none.
C31_ErrorOnlyInError ==
    \A id \in DOMAIN tasks : tasks[id].error # None => tasks[id].status = "Error"

\* The messages of the failures of a running transfer.
TransferFailures == (BeginOutcomes \ {"ok"}) \cup StreamErrors

\* C32: a failure of a running transfer (the GET fails or answers non-2xx,
\* the open, the seek or a write of the file fails, the stream yields an
\* error) takes the worker to its last step with that failure as its
\* result, and that step leaves the task in the store with status Error and
\* a message that is not empty, and out of the persisted document; no step
\* of a worker changes what a manager call returned, and no call returns the
\* failure.
C32_TransferFailureEndsInError ==
    [][\A w \in WorkerIds :
         /\ \A o \in TransferFailures :
              (\/ o \in BeginOutcomes /\ begin_chunk(w, o)
               \/ o \in StreamErrors /\ stream_error(w, o))
              => /\ workers'[w].pc = "finish"
                 /\ workers'[w].result = Some(Err(o))
                 /\ tasks' = tasks
                 /\ ret' = ret
         /\ (/\ finish(w)
             /\ workers[w].result # None
             /\ workers[w].result[1].msg \in TransferFailures
             /\ workers[w].tid \in DOMAIN tasks)
            => LET id == workers[w].tid
               IN /\ DOMAIN tasks' = DOMAIN tasks
                  /\ tasks'[id].status = "Error"
                  /\ tasks'[id].error = workers[w].result
                  /\ tasks'[id].error[1].msg # ""
                  /\ id \notin DOMAIN doc'
                  /\ w \notin DOMAIN workers'
                  /\ ret' = ret
                  /\ ret' \notin TransferFailures
      ]_vars

\* C32's case: a write of the file failed in the middle of a transfer; the
\* task is in the store in Error with that message and out of the document,
\* its worker is gone, and the call that started it had returned Ok.
C32_Witness ==
    \E id \in DOMAIN tasks :
        /\ tasks[id].status = "Error"
        /\ tasks[id].error = Some(Err("chunk 0 write error"))
        /\ id \notin DOMAIN doc
        /\ \A w \in DOMAIN workers : workers[w].tid # id
        /\ ret = "Ok"

\* C33: within one worker's transfer, the first buffer is written at the
\* resume offset and each buffer at the end of the one before it, so the
\* offsets are contiguous and strictly increasing; after each buffer one
\* progress event is emitted, with status Downloading, no error, a
\* downloaded size equal to the resume offset plus the bytes written so far
\* by this worker (larger than that of the event before), and a progress
\* value within 0..100.
C33_SequentialWritesAndProgress ==
    [][\A w \in WorkerIds, n \in 1..MaxBuf :
         stream_buffer(w, n) =>
            LET me == workers[w]
                path == me.task.dest_path
                resume_offset == me.task.downloaded_size
                session_bytes == workers'[w].pos - StartOffset(me.task)
                event == workers'[w].event[1]
            IN /\ me.event = None => me.pos = resume_offset
               /\ me.pos >= resume_offset
               /\ Len(files'[path]) >= me.pos + n
               /\ SubSeq(files'[path], me.pos + 1, me.pos + n) = Repeat(1, n)
               /\ workers'[w].pos = me.pos + n
               /\ workers'[w].pos > me.pos
               /\ workers'[w].event # None
               /\ workers'[w].event # me.event
               /\ event.task_id = me.tid
               /\ event.total_size = me.task.total_size
               /\ event.status = "Downloading"
               /\ event.error = None
               /\ event.downloaded_size = resume_offset + session_bytes
               /\ me.event # None => event.downloaded_size > me.event[1].downloaded_size
               /\ event.progress \in 0..100
      ]_vars

\* C33's case: a worker that resumed at one byte has written two buffers
\* after it, more than the total size, and its last event reports three
\* bytes and a progress of 100.
C33_Witness ==
    \E w \in DOMAIN workers :
        /\ workers[w].pc = "stream"
        /\ workers[w].task.downloaded_size = 1
        /\ workers[w].pos = 3
        /\ workers[w].event # None
        /\ workers[w].event[1].downloaded_size = 3
        /\ workers[w].event[1].progress = 100

\* C34: for a task of unknown size (total_size 0), start_task changes
\* nothing of the record but its status, whatever file is on disk (neither
\* the resume nor the already-complete branch is taken); every progress
\* event of its workers reports progress 0; and the progress of the record
\* is 0 until a worker whose transfer has ended without failure takes its
\* last step, which leaves the task Completed with progress 100.
C34_UnknownSizeProgress ==
    [][/\ \A id \in DOMAIN tasks, dir_ok \in BOOLEAN :
            (start_task(id, dir_ok) /\ tasks[id].total_size = 0)
               => /\ tasks'[id] = [tasks[id] EXCEPT !.status = "Downloading"]
                  /\ \A w \in DOMAIN workers' \ DOMAIN workers :
                        /\ workers'[w].resumed = <<>>
                        /\ workers'[w].task.downloaded_size = tasks[id].downloaded_size
       /\ \A w \in DOMAIN workers' :
            (workers'[w].task.total_size = 0 /\ workers'[w].event # None)
               => workers'[w].event[1].progress = 0
       /\ \A id \in DOMAIN tasks \cap DOMAIN tasks' :
            (tasks[id].total_size = 0 /\ tasks'[id].progress # tasks[id].progress)
               => /\ tasks[id].progress = 0
                  /\ tasks'[id].progress = 100
                  /\ tasks'[id].status = "Completed"
                  /\ \E w \in DOMAIN workers :
                        /\ finish(w)
                        /\ workers[w].tid = id
                        /\ workers[w].result = None
       /\ \A w \in DOMAIN workers :
            (/\ finish(w)
             /\ workers[w].result = None
             /\ workers[w].tid \in DOMAIN tasks
             /\ workers[w].task.total_size = 0)
               => /\ tasks'[workers[w].tid].status = "Completed"
                  /\ tasks'[workers[w].tid].progress = 100
      ]_vars

\* C34's case: a task of unknown size that was started more than once: its
\* latest worker has received the whole file, the worker's last event
\* reports progress 0, and the record is Downloading with progress 0.
C34_Witness ==
    \E id \in DOMAIN tasks, w \in DOMAIN workers :
        /\ tasks[id].total_size = 0
        /\ tasks[id].status = "Downloading"
        /\ tasks[id].progress = 0
        /\ w > 1
        /\ workers[w].tid = id
        /\ workers[w].pc = "stream"
        /\ workers[w].event # None
        /\ workers[w].event[1].downloaded_size = MaxSize
        /\ workers[w].event[1].progress = 0

\* C35: one checksum takes effect per task.  With a sha256 checksum, given
\* alone or next to an md5 one, the verification succeeds exactly when the
\* file has the sha256 digest and fails with a sha256 mismatch otherwise,
\* whatever the md5 checksum is; with an md5 checksum alone it succeeds
\* exactly when the file has the md5 digest; the worker's last step makes
\* the task Completed after a success and Error after a failure.  Without
\* a checksum the worker goes from the transfer to its last step, and the
\* task never has status Verifying.
C35_OneChecksumTakesEffect ==
    [][/\ \A w \in WorkerIds :
            /\ (verify(w) /\ workers[w].task.dest_path \in DOMAIN files) =>
                 LET task == workers[w].task
                     file == files[task.dest_path]
                     result == workers'[w].result
                 IN /\ task.sha256 # None =>
                         /\ result = None <=> task.sha256[1].of = file
                         /\ result # None => result[1].msg = "SHA256 mismatch"
                    /\ (task.sha256 = None /\ task.md5 # None) =>
                         /\ result = None <=> task.md5[1].of = file
                         /\ result # None => result[1].msg = "MD5 mismatch"
                    /\ task.sha256 # None \/ task.md5 # None
            /\ (finish(w) /\ workers[w].tid \in DOMAIN tasks) =>
                 tasks'[workers[w].tid].status =
                    IF workers[w].result = None THEN "Completed" ELSE "Error"
            /\ after_chunks(w) =>
                 LET task == workers[w].task
                 IN IF task.sha256 = None /\ task.md5 = None
                    THEN /\ workers'[w].pc = "finish"
                         /\ workers'[w].result = None
                         /\ tasks' = tasks
                    ELSE workers'[w].pc = "verify"
       /\ \A id \in DOMAIN tasks' :
            tasks'[id].status = "Verifying"
               => tasks'[id].sha256 # None \/ tasks'[id].md5 # None
      ]_vars

\* C35's case: a task with the right sha256 checksum and a wrong md5 one is
\* Completed, and its file was verified after its last write.
C35_Witness ==
    \E id \in DOMAIN tasks :
        /\ tasks[id].sha256 # None
        /\ tasks[id].sha256[1].of = GoodFile(MaxSize)
        /\ tasks[id].md5 = Some(Md5Hex(BadFile))
        /\ tasks[id].status = "Completed"
        /\ tasks[id].dest_path \in verified

\* C36: cancel_task removes the cancelled task from the store and its handle
\* from the table, aborting the worker behind that handle, and changes
\* nothing else: no file on disk is deleted or modified, every other task's
\* record and handle are the same, every worker of another task is the
\* same, and no permit changes hands.
C36_CancelFrame ==
    [][\A id \in PoolIds :
         cancel_task(id) =>
            /\ files' = files
            /\ DOMAIN tasks' = DOMAIN tasks \ {id}
            /\ \A other \in DOMAIN tasks' : tasks'[other] = tasks[other]
            /\ DOMAIN handles' = DOMAIN handles \ {id}
            /\ \A other \in DOMAIN handles' : handles'[other] = handles[other]
            /\ DOMAIN workers' = DOMAIN workers
            /\ \A w \in DOMAIN workers :
                 /\ workers[w].tid # id => workers'[w] = workers[w]
                 /\ workers'[w].permit = workers[w].permit
                 /\ workers'[w] # workers[w] =>
                       /\ id \in DOMAIN handles
                       /\ handles[id] = w
                       /\ workers'[w] = [workers[w] EXCEPT !.pc = "aborted"]
            /\ permits' = permits
            /\ nextId' = nextId
            /\ verified' = verified
      ]_vars

\* C36's case: a task was cancelled in the middle of its transfer: it is
\* gone from the store and from the handle table, the bytes it had written
\* are on disk, and another task is in the store with its worker.
C36_Witness ==
    \E id \in Created \ DOMAIN tasks, other \in DOMAIN tasks :
        /\ id \notin DOMAIN handles
        /\ DestPath(id) \in DOMAIN files
        /\ Len(files[DestPath(id)]) = 1
        /\ \E w \in DOMAIN workers : workers[w].tid = id /\ workers[w].pc = "aborted"
        /\ \E w \in DOMAIN workers : workers[w].tid = other /\ workers[w].pc = "acquire"

\* The workers of task id that wait for a permit, transfer or verify.
LiveWorkersOf(id) == {w \in DOMAIN workers : workers[w].tid = id /\ Live(w)}

\* C37: a task never has more than one live worker (waiting for a permit,
\* transferring or verifying), and the handle table refers to every live
\* worker of a task of the store.
C37_OneWorkerPerTask ==
    /\ \A id \in PoolIds : Cardinality(LiveWorkersOf(id)) <= 1
    /\ \A w \in DOMAIN workers :
         (Live(w) /\ workers[w].tid \in DOMAIN tasks)
            => /\ workers[w].tid \in DOMAIN handles
               /\ handles[workers[w].tid] = w

\* C38: no step of a worker (setting Verifying, Completed or Error, marking
\* a chunk completed) changes the record of a task whose status is Paused.
C38_PausedUntilStartOrCancel ==
    [][\A w \in WorkerIds :
         (stream_end(w) \/ after_chunks(w) \/ finish(w))
            => \A id \in DOMAIN tasks :
                  tasks[id].status = "Paused"
                     => id \in DOMAIN tasks' /\ tasks'[id] = tasks[id]
      ]_vars

\* The messages of the errors start_task returns.
StartErrors == {"Task not found", "create_dir_all failed"}

\* C39: a call of start_task that returns an error leaves the store as it
\* was, and every task whose status is Downloading or Verifying has a live
\* worker (waiting for a permit, transferring or verifying).
C39_FailedStartChangesNothing ==
    [][/\ \A id \in TaskIds, dir_ok \in BOOLEAN :
            (start_task(id, dir_ok) /\ ret' \in StartErrors) => tasks' = tasks
       /\ \A id \in DOMAIN tasks' :
            tasks'[id].status \in {"Downloading", "Verifying"}
               => \E w \in DOMAIN workers' : workers'[w].tid = id /\ workers'[w].pc # "aborted"
      ]_vars

\* C40: a task of known size (total_size > 0) whose status is Completed has
\* downloaded_size equal to total_size, and its chunk is completed with
\* downloaded equal to total_size.
C40_CompletedMeansAllBytes ==
    \A id \in DOMAIN tasks :
        (tasks[id].total_size > 0 /\ tasks[id].status = "Completed")
           => /\ tasks[id].downloaded_size = tasks[id].total_size
              /\ tasks[id].chunks[1].completed
              /\ tasks[id].chunks[1].downloaded = tasks[id].total_size
====
